---- MODULE Spec2Model ----
(***************************************************************************)
(* Model of mediamail's MailBot (src/mailbot.py) and the helpers it uses   *)
(* (src/utils.py).                                                         *)
(*                                                                         *)
(* Python dictionaries are TLA+ functions with string domains, so that     *)
(* "'k' in d" is  k \in DOMAIN d.  Texts are sequences of one-character    *)
(* strings.  A Python number is a record [val, isFloat]; val counts halves *)
(* (Scale == 2), which represents exactly the floats that arise from a     *)
(* locality_confidence of 0.0, 0.5 or 1.0.                                 *)
(*                                                                         *)
(* The titles of the configured queries are pairwise distinct: the code    *)
(* treats the title as "the unique ID of the query" (mailbot.py:100).      *)
(***************************************************************************)
EXTENDS Integers, Sequences, FiniteSets, TLC

VARIABLES conf, globalReply, pc, qi, hitLog, retrievals, last,
          cycle, body, scored,
          nextAttempt, attempts, mmids, replied, parsed,
          twitterBot, twitterLog

\* The state of the MailBot and its ScoringHelper, and the state of the
\* send loop, of the MMIDHelper, the ReplyBot, the ElasticSearchHelper and
\* the TwitterBot.
mailBot == <<conf, globalReply, pc, qi, hitLog, retrievals, last,
             cycle, body, scored>>
helpers == <<nextAttempt, attempts, mmids, replied, parsed,
             twitterBot, twitterLog>>

vars == <<mailBot, helpers>>

(***************************************************************************)
(* Bounds of the model.                                                    *)
(***************************************************************************)
\* Largest number of hits one retrieval yields when the hits are arbitrary.
MaxHits == 3
\* Largest number of executeQueries cycles run on one MailBot.
MaxCycles == 2
\* Largest number of IDs generated in one run.
MaxIds == 2
\* Largest number of lines of a mail.
MaxLines == 2
\* Largest number of errors Twitter sends between two tweets with text.
MaxErrors == 6
\* Python's hash() is 64 bits wide; the model reduces its hash to this range.
HashSpace == 16777216

(***************************************************************************)
(* Program constants.                                                      *)
(***************************************************************************)
DefaultHitLimit == 10
Scale == 2
\* sendMail: the first wait and the wait beyond which it gives up.
FirstWait == 10
GiveUpWait == 2600
\* on_error: the number of consecutive errors from which it logs an error.
ErrorLimit == 3
\* generateID: the base and the width of an ID.
Base62 == 62
IdWidth == 5

Has(d, k) == k \in DOMAIN d

Take(s, n) == IF n >= Len(s) THEN s ELSE SubSeq(s, 1, n)

(***************************************************************************)
(* Python numbers.                                                         *)
(***************************************************************************)
PyInt(n) == [val |-> Scale * n, isFloat |-> FALSE]
PyFloatHalves(h) == [val |-> h, isFloat |-> TRUE]
\* a + b: the result is a float as soon as one operand is.
PyAdd(a, b) == [val |-> a.val + b.val, isFloat |-> a.isFloat \/ b.isFloat]

(***************************************************************************)
(* Characters and hash().                                                  *)
(***************************************************************************)
Ord == ("a" :> 97) @@ ("b" :> 98) @@ ("c" :> 99) @@ ("s" :> 115) @@
       ("x" :> 120) @@ ("A" :> 65) @@ ("B" :> 66) @@ ("S" :> 83) @@
       (" " :> 32) @@ ("@" :> 64)

LowerChar(c) == CASE c = "A" -> "a" [] c = "B" -> "b" [] c = "S" -> "s"
                  [] OTHER -> c
\* str.lower()
Lower(t) == [i \in 1..Len(t) |-> LowerChar(t[i])]

RECURSIVE HashFrom(_, _)
HashFrom(h, t) ==
  IF t = <<>> THEN h
  ELSE HashFrom((h * 31 + Ord[Head(t)]) % HashSpace, Tail(t))
\* hash(text): equal texts have equal hashes; the code compares the hashes.
Hash(t) == HashFrom(0, t)

\* "needle in haystack" on strings.
IsSubstring(needle, hay) ==
  \E i \in 0..(Len(hay) - Len(needle)) :
     \A j \in 1..Len(needle) : hay[i + j] = needle[j]

\* len(text.split(' ')): one more than the number of spaces.
SplitCount(t) == Cardinality({i \in 1..Len(t) : t[i] = " "}) + 1

(***************************************************************************)
(* Loosely typed configuration values: [type, v].                          *)
(***************************************************************************)
I(n) == [type |-> "int", v |-> n]
S(x) == [type |-> "str", v |-> x]
D(d) == [type |-> "dict", v |-> d]
L(l) == [type |-> "list", v |-> l]

\* The value a "try: w = int(x) except: log" block leaves in w (initially 0).
IntOrZero(x) == IF x.type = "int" THEN x.v ELSE 0

IsList(x) == x.type = "list"
IsDict(x) == x.type = "dict"

\* Python's None, and a value that is not a dictionary.
None == [pynone |-> TRUE]
NotADict == [pytype |-> "str"]

\* "key in x" raises TypeError for these: null, a number, a boolean.
NotIterable(x) ==
  \/ x = None
  \/ IF Has(x, "type") THEN x.type \in {"int", "float", "bool"} ELSE FALSE

(***************************************************************************)
(* ScoringHelper.scoreContent (utils.py:567-682).  A keyword dictionary is *)
(* a set of [keyword, points] entries with distinct keywords.              *)
(***************************************************************************)
LengthScoreWordsOnly(scoring, record) ==
  IF Has(scoring, "points_per_word") /\ Has(record, "text")
  THEN LET t == record.text
           starts == {i \in 1..Len(t) :
                        t[i] # " " /\ (IF i = 1 THEN TRUE ELSE t[i - 1] = " ")}
       IN PyInt(Cardinality(starts) * IntOrZero(scoring.points_per_word))
  ELSE PyInt(0)

LengthScore(scoring, record) ==
  IF Has(scoring, "points_per_word") /\ Has(record, "text")
  THEN PyInt(SplitCount(record.text) * IntOrZero(scoring.points_per_word))
  ELSE PyInt(0)

LocalityScore(scoring, record) ==
  IF Has(scoring, "locality_multiplier") /\ Has(record, "locality_confidence")
  THEN PyFloatHalves(IntOrZero(scoring.locality_multiplier)
                       * record.locality_confidence)
  ELSE PyInt(0)

KeywordHitsCaseSensitive(words, record) ==
  {e \in words : Has(record, "text") /\ IsSubstring(e.keyword, record.text)}

KeywordHits(words, record) ==
  {e \in words : Has(record, "text")
                   /\ IsSubstring(Lower(e.keyword), Lower(record.text))}

RECURSIVE SumPoints(_)
SumPoints(es) ==
  IF es = {} THEN 0
  ELSE LET e == CHOOSE x \in es : TRUE
       IN IntOrZero(e.points) + SumPoints(es \ {e})

InterestScore(scoring, record) ==
  IF Has(scoring, "interested_words") /\ IsDict(scoring.interested_words)
  THEN PyInt(SumPoints(KeywordHits(scoring.interested_words.v, record)))
  ELSE PyInt(0)

DisinterestScore(scoring, record) ==
  IF Has(scoring, "disinterested_words") /\ IsDict(scoring.disinterested_words)
  THEN PyInt(0 - SumPoints(KeywordHits(scoring.disinterested_words.v, record)))
  ELSE PyInt(0)

NonEmptyList(record, k) ==
  Has(record, k) /\ IsList(record[k]) /\ Len(record[k].v) > 0

HashtagScore(scoring, record) ==
  IF NonEmptyList(record, "hashtags") /\ Has(scoring, "hashtag_heck")
  THEN PyInt(Len(record.hashtags.v) * IntOrZero(scoring.hashtag_heck))
  ELSE PyInt(0)

ShoutoutScore(scoring, record) ==
  IF NonEmptyList(record, "references") /\ Has(scoring, "shoutout_heck")
  THEN PyInt(Len(record.references.v) * IntOrZero(scoring.shoutout_heck))
  ELSE PyInt(0)

HasHandles(c) ==
  /\ Has(c, "user_identification")
  /\ IsDict(c.user_identification)
  /\ Has(c.user_identification.v, "social_media_handles")
  /\ IsList(c.user_identification.v.social_media_handles)
  /\ Len(c.user_identification.v.social_media_handles.v) > 0

ReferencesToMeScoreOncePerHandle(c, record) ==
  IF HasHandles(c) /\ NonEmptyList(record, "references")
  THEN LET handles == c.user_identification.v.social_media_handles.v
           refs    == record.references.v
           rtm     == IF Has(c.scoring, "references_to_me")
                      THEN IntOrZero(c.scoring.references_to_me) ELSE 0
           found   == {h \in 1..Len(handles) :
                         \E r \in 1..Len(refs) :
                            IsSubstring(Lower(handles[h]), Lower(refs[r]))}
       IN PyInt(Cardinality(found) * rtm)
  ELSE PyInt(0)

ReferencesToMeScore(c, record) ==
  IF HasHandles(c) /\ NonEmptyList(record, "references")
  THEN LET handles == c.user_identification.v.social_media_handles.v
           refs    == record.references.v
           rtm     == IF Has(c.scoring, "references_to_me")
                      THEN IntOrZero(c.scoring.references_to_me) ELSE 0
           matches == {p \in (1..Len(handles)) \X (1..Len(refs)) :
                         IsSubstring(Lower(handles[p[1]]), Lower(refs[p[2]]))}
       IN PyInt(Cardinality(matches) * rtm)
  ELSE PyInt(0)

\* The record is None or not a dictionary: zero is returned at once.
NoRecord(record) == record = None \/ record = NotADict

scoreContentRaisesOnMissingSection(c, record) ==
  IF NoRecord(record) THEN FALSE
  ELSE IF ~Has(c, "scoring") THEN TRUE
  ELSE NotIterable(c.scoring)

\* The call scoreContent(record) ends with an exception instead of a score:
\* nothing in scoreContent catches the TypeError that the first
\* "key in self.conf['scoring']" raises when the section is not a container.
scoreContentRaises(c, record) ==
  IF NoRecord(record) \/ ~Has(c, "scoring") THEN FALSE
  ELSE NotIterable(c.scoring)

scoreContent(c, record) ==
  IF NoRecord(record) \/ ~Has(c, "scoring") THEN PyInt(0)
  ELSE PyAdd(PyAdd(PyAdd(PyAdd(PyAdd(PyAdd(
         LengthScore(c.scoring, record),
         LocalityScore(c.scoring, record)),
         InterestScore(c.scoring, record)),
         DisinterestScore(c.scoring, record)),
         HashtagScore(c.scoring, record)),
         ShoutoutScore(c.scoring, record)),
         ReferencesToMeScore(c, record))

(***************************************************************************)
(* MailBot (mailbot.py).                                                   *)
(***************************************************************************)

\* Variant of prepareRecord that does not require the mmid.
prepareRecordWithoutMmidCheck(record, score) ==
  IF ~Has(record, "text") THEN None
  ELSE [score |-> score, text |-> record.text]
       @@ (IF Has(record, "mmid") THEN [mmid |-> record.mmid] ELSE <<>>)
       @@ (IF Has(record, "url") THEN [link |-> record.url] ELSE <<>>)
       @@ (IF Has(record, "author_screen_name")
           THEN [author_screen_name |-> record.author_screen_name] ELSE <<>>)

\* MailBot.prepareRecord
prepareRecord(record, score) ==
  IF ~Has(record, "text") THEN None
  ELSE IF ~Has(record, "mmid") THEN None
  ELSE [score |-> score, text |-> record.text, mmid |-> record.mmid]
       @@ (IF Has(record, "url") THEN [link |-> record.url] ELSE <<>>)
       @@ (IF Has(record, "author_screen_name")
           THEN [author_screen_name |-> record.author_screen_name] ELSE <<>>)

\* MailBot.sortReplies: the sort key of an entry of a replies list.
sortReplies(item) == IF ~Has(item, "score") THEN 0 ELSE item.score.val

\* Variant of InsertDesc that puts e in front of the entries of equal key.
RECURSIVE InsertDescBeforeEqual(_, _)
InsertDescBeforeEqual(sorted, e) ==
  IF sorted = <<>> THEN <<e>>
  ELSE IF sortReplies(Head(sorted)) > sortReplies(e)
       THEN <<Head(sorted)>> \o InsertDescBeforeEqual(Tail(sorted), e)
       ELSE <<e>> \o sorted

\* Inserts e behind every entry whose key is >= the key of e.
RECURSIVE InsertDesc(_, _)
InsertDesc(sorted, e) ==
  IF sorted = <<>> THEN <<e>>
  ELSE IF sortReplies(Head(sorted)) >= sortReplies(e)
       THEN <<Head(sorted)>> \o InsertDesc(Tail(sorted), e)
       ELSE <<e>> \o sorted

\* Variant of SortedDesc without reverse=True: ascending order.
RECURSIVE InsertAsc(_, _)
InsertAsc(sorted, e) ==
  IF sorted = <<>> THEN <<e>>
  ELSE IF sortReplies(Head(sorted)) <= sortReplies(e)
       THEN <<Head(sorted)>> \o InsertAsc(Tail(sorted), e)
       ELSE <<e>> \o sorted

RECURSIVE SortedAsc(_)
SortedAsc(l) ==
  IF l = <<>> THEN <<>>
  ELSE InsertAsc(SortedAsc(SubSeq(l, 1, Len(l) - 1)), l[Len(l)])

\* sorted(repliesList, key=self.sortReplies, reverse=True): a stable sort,
\* entries with equal keys keep their order in repliesList.
RECURSIVE SortedDesc(_)
SortedDesc(l) ==
  IF l = <<>> THEN <<>>
  ELSE InsertDesc(SortedDesc(SubSeq(l, 1, Len(l) - 1)), l[Len(l)])

\* Variant of Chop that keeps one entry more: sortedList[:hit_limit + 1].
ChopOneMore(l, limit) ==
  IF limit + 1 >= 0 THEN Take(l, limit + 1)
  ELSE IF Len(l) + limit + 1 > 0 THEN SubSeq(l, 1, Len(l) + limit + 1) ELSE <<>>

\* Variant of Chop that keeps the end of the list: sortedList[-hit_limit:].
ChopKeepsEnd(l, limit) ==
  IF limit > 0 /\ Len(l) > limit THEN SubSeq(l, Len(l) - limit + 1, Len(l))
  ELSE IF limit > 0 THEN l ELSE <<>>

\* The slice sortedList[:hit_limit]; a negative limit counts from the end.
Chop(l, limit) ==
  IF limit >= 0 THEN Take(l, limit)
  ELSE IF Len(l) + limit > 0 THEN SubSeq(l, 1, Len(l) + limit) ELSE <<>>

\* hit_limit = 10 unless the query configures one.
HitLimitOf(query) ==
  IF ~Has(query, "hit_limit") THEN DefaultHitLimit ELSE query.hit_limit

\* The loop that looks replyToUse up: the last entry with the query's title,
\* 0 when there is none.
FindReply(gr, title) ==
  LET hits == {i \in 1..Len(gr) : gr[i].title = title}
  IN IF hits = {} THEN 0 ELSE CHOOSE i \in hits : \A j \in hits : j <= i

\* Variant of EmptyText that only checks that the text is present.
EmptyTextAbsentOnly(record) == ~Has(record, "text")

\* "'text' not in record or len(record['text']) == 0"
EmptyText(record) == ~Has(record, "text") \/ Len(record.text) = 0

\* Variant of IsDuplicate that compares with the last entry only.
IsDuplicateOfLast(repliesList, record) ==
  /\ Len(repliesList) > 0
  /\ Hash(repliesList[Len(repliesList)].text) = Hash(record.text)

\* Variant of IsDuplicate that compares the mmid as well as the text.
IsDuplicateSameMmid(repliesList, record) ==
  \E i \in 1..Len(repliesList) :
     /\ Hash(repliesList[i].text) = Hash(record.text)
     /\ Has(record, "mmid") /\ repliesList[i].mmid = record.mmid

\* Variant of IsDuplicate that finds no duplicate.
IsDuplicateNever(repliesList, record) == FALSE

\* The loop over repliesList that compares hash(text).
IsDuplicate(repliesList, record) ==
  \E i \in 1..Len(repliesList) :
     Hash(repliesList[i].text) = Hash(record.text)

\* Variant of SetReplies that gives the chopped list to every entry.
SetRepliesEverywhere(gr, title, l) ==
  [i \in 1..Len(gr) |-> [gr[i] EXCEPT !.replies = l]]

\* The final loop: every entry with the query's title gets the chopped list.
SetReplies(gr, title, l) ==
  [i \in 1..Len(gr) |->
     IF gr[i].title = title THEN [gr[i] EXCEPT !.replies = l] ELSE gr[i]]

\* The list after the append, or unchanged when prepareRecord returned None.
Appended(repliesList, prepared) ==
  IF prepared # None THEN Append(repliesList, prepared) ELSE repliesList

\* MailBot.updateGlobalReply: the value of globalReply after the call.
updateGlobalReply(gr, c, record, query) ==
  IF ~Has(query, "title") THEN gr
  ELSE LET idx == FindReply(gr, query.title) IN
    IF idx = 0 THEN gr
    ELSE LET repliesList == gr[idx].replies IN
      IF EmptyText(record) THEN gr
      ELSE IF IsDuplicate(repliesList, record) THEN gr
      ELSE LET prepared == prepareRecord(record, scoreContent(c, record))
               sortedList == SortedDesc(Appended(repliesList, prepared))
           IN SetReplies(gr, query.title, Chop(sortedList, HitLimitOf(query)))

\* Variant of InitReplies that puts each new entry in front.
RECURSIVE InitRepliesPrepending(_)
InitRepliesPrepending(queries) ==
  IF queries = <<>> THEN <<>>
  ELSE InitRepliesPrepending(Tail(queries))
         \o (IF Has(Head(queries), "title")
             THEN <<[title |-> Head(queries).title, replies |-> <<>>]>>
             ELSE <<>>)

\* MailBot.__init__: one entry per configured query that has a title.
RECURSIVE InitReplies(_)
InitReplies(queries) ==
  IF queries = <<>> THEN <<>>
  ELSE (IF Has(Head(queries), "title")
        THEN <<[title |-> Head(queries).title, replies |-> <<>>]>>
        ELSE <<>>) \o InitReplies(Tail(queries))

HasQueryList(c) == Has(c, "queries") /\ IsList(c.queries)

InitGlobalReply(c) ==
  IF HasQueryList(c) THEN InitReplies(c.queries.v) ELSE <<>>

(***************************************************************************)
(* Inputs: the records the search index can return and the configurations. *)
(***************************************************************************)
DocA      == [text |-> <<"a">>, mmid |-> "m1"]
DocB      == [text |-> <<"b">>, mmid |-> "m2", author_screen_name |-> "bob"]
DocAB     == [text |-> <<"a", " ", "b">>, mmid |-> "m3", url |-> "u3"]
DocA2     == [text |-> <<"a">>, mmid |-> "m4", hashtags |-> L(<<"h">>)]
DocEmpty  == [text |-> <<>>, mmid |-> "m5"]
DocNoText == [mmid |-> "m6"]
DocNoMmid == [text |-> <<"c">>]

Docs == {DocA, DocB, DocAB, DocA2, DocEmpty, DocNoText, DocNoMmid}

\* A raw hit is a dictionary that carries the record under "_source".
Hit(d) == [_source |-> d]
NoSource == [_id |-> "e1"]
IsDictHit(h) == ~Has(h, "pytype")

Hits == {Hit(d) : d \in Docs} \cup {NotADict, NoSource}

\* A text of n words "x".
Words(n) == [k \in 1..(2 * n - 1) |-> IF k % 2 = 1 THEN "x" ELSE " "]

\* A result sequence one longer than the default hit limit, with pairwise
\* distinct texts and increasing scores.
LongFeed ==
  [i \in 1..(DefaultHitLimit + 1) |-> Hit([text |-> Words(i), mmid |-> "m7"])]

IsPrefix(s, t) == Len(s) <= Len(t) /\ SubSeq(t, 1, Len(s)) = s

\* The result sequences of the search collaborator are the sequences of at
\* most MaxHits hits and the prefixes of LongFeed: the hits that can follow
\* the hits yielded so far.
NextHits(log) ==
  (IF Len(log) < MaxHits THEN Hits ELSE {})
    \cup (IF Len(log) < Len(LongFeed) /\ IsPrefix(log, LongFeed)
          THEN {LongFeed[Len(log) + 1]} ELSE {})

Scoring == [points_per_word |-> I(1), hashtag_heck |-> I(2)]

QA          == [title |-> "T1", query |-> {"match"}, hit_limit |-> 2]
QB          == [title |-> "T2", query |-> {"match"}, hit_limit |-> 1]
QDefault    == [title |-> "T2", query |-> {"match"}]
QNoQuery    == [title |-> "T1", hit_limit |-> 2]
QNoTitle    == [query |-> {"match"}, hit_limit |-> 2]
QEmptyTitle == [title |-> "", query |-> {"match"}, hit_limit |-> 2]
QEmptyCrit  == [title |-> "T1", query |-> {}, hit_limit |-> 1]
QZero       == [title |-> "T1", query |-> {"match"}, hit_limit |-> 0]
QNegative   == [title |-> "T1", query |-> {"match"}, hit_limit |-> -1]

QueryLists ==
  { <<QA, QB>>, <<QNoQuery, QDefault>>, <<QNoTitle, QA>>, <<QB, QNoQuery>>,
    <<QNoTitle, QEmptyTitle, QEmptyCrit>>, <<QZero>>, <<QNegative>>, <<>> }

\* The sections MailBot.__init__ requires, and the mail settings sendMail
\* requires.
Elastic == [host |-> S("localhost"), port |-> S("9200"), index |-> S("mm")]
Email ==
  [smtp_host |-> S("smtp"), smtp_port |-> S("587"), user_address |-> S("user"),
   sender_address |-> S("bot")]
EmailNoHost ==
  [smtp_port |-> S("587"), user_address |-> S("user"),
   sender_address |-> S("bot")]
EmailNullPort == [Email EXCEPT !.smtp_port = None]

Base == [email |-> Email, elastic |-> Elastic, scoring |-> Scoring]

Configs ==
  {Base @@ [queries |-> L(qs)] : qs \in QueryLists}
    \cup {Base, Base @@ [queries |-> S("none")],
          [email |-> EmailNoHost] @@ Base @@ [queries |-> L(<<QB>>)],
          [email |-> EmailNullPort] @@ Base @@ [queries |-> L(<<>>)]}

\* The configurations on which several cycles are run.
CycleConfigs ==
  {Base @@ [queries |-> L(<<QNoQuery, QNoTitle, QB>>)],
   Base, Base @@ [queries |-> S("none")],
   [email |-> EmailNoHost] @@ Base @@ [queries |-> L(<<>>)]}

(***************************************************************************)
(* State.  pc is the position inside executeQueries, qi the index of the   *)
(* query the loop is at, hitLog the hits the current scanner has yielded,  *)
(* retrievals the payloads passed to ElasticSearchHelper.scan, and last    *)
(* describes the step taken last (before: globalReply before that step).   *)
(***************************************************************************)
Step(kind, record) ==
  [kind |-> kind, qi |-> qi, record |-> record, before |-> globalReply]

\* The helpers before any of them has been used.
NoTwitterBot == [myStream |-> "none"]
NoCallback == [call |-> "none", errors |-> 0]

HelpersIdle ==
  /\ nextAttempt = FirstWait
  /\ attempts = 0
  /\ mmids = <<>>
  /\ replied = None
  /\ parsed = None
  /\ twitterBot = NoTwitterBot
  /\ twitterLog = NoCallback

\* The state after MailBot(configFile) has loaded the configuration c.
Constructed(c) ==
  /\ conf = c
  /\ globalReply = InitGlobalReply(c)
  /\ pc = "loop"
  /\ qi = 1
  /\ hitLog = <<>>
  /\ retrievals = <<>>
  /\ last = [kind |-> "init", qi |-> 0, record |-> None, before |-> <<>>]
  /\ cycle = 1
  /\ body = <<>>
  /\ scored = None
  /\ HelpersIdle

Init == \E c \in Configs : Constructed(c)

InitCycles == \E c \in CycleConfigs : Constructed(c)

InLoop == pc = "loop" /\ HasQueryList(conf) /\ qi <= Len(conf.queries.v)

CurQuery == conf.queries.v[qi]

\* "'queries' not in self.conf": return.
NoQueriesSection ==
  /\ pc = "loop" /\ ~Has(conf, "queries")
  /\ pc' = "done"
  /\ last' = Step("return", None)
  /\ UNCHANGED <<cycle, body, scored, helpers, conf, globalReply, qi, hitLog, retrievals>>

\* "isinstance(self.conf['queries'], list) is False": return.
QueriesNotList ==
  /\ pc = "loop" /\ Has(conf, "queries") /\ ~IsList(conf.queries)
  /\ pc' = "done"
  /\ last' = Step("return", None)
  /\ UNCHANGED <<cycle, body, scored, helpers, conf, globalReply, qi, hitLog, retrievals>>

\* "'query' not in query"
MissingQuery(q) == ~Has(q, "query")

\* Variant of MissingTitle that also rejects the empty title.
MissingOrEmptyTitle(q) == IF Has(q, "title") THEN q.title = "" ELSE TRUE

\* "'title' not in query"
MissingTitle(q) == ~Has(q, "title")

\* Variant of SkipNoQuery that returns instead of continuing.
SkipNoQueryReturns ==
  /\ InLoop /\ MissingQuery(CurQuery)
  /\ pc' = "done"
  /\ last' = Step("skip", None)
  /\ UNCHANGED <<cycle, body, scored, helpers, conf, globalReply, qi, hitLog, retrievals>>

\* The query has no criteria: continue.
SkipNoQuery ==
  /\ InLoop /\ MissingQuery(CurQuery)
  /\ qi' = qi + 1
  /\ last' = Step("skip", None)
  /\ UNCHANGED <<cycle, body, scored, helpers, conf, globalReply, pc, hitLog, retrievals>>

\* The query has no title: continue.
SkipNoTitle ==
  /\ InLoop /\ ~MissingQuery(CurQuery) /\ MissingTitle(CurQuery)
  /\ qi' = qi + 1
  /\ last' = Step("skip", None)
  /\ UNCHANGED <<cycle, body, scored, helpers, conf, globalReply, pc, hitLog, retrievals>>

\* The query passes both checks.
ValidQuery(q) == ~MissingQuery(q) /\ ~MissingTitle(q)

\* Variant of QueryDict that hands the whole configured query over.
QueryDictWhole(q) == q

\* The dictionary handed to ElasticSearchHelper.scan.
QueryDict(q) == [query |-> q.query]

\* scan returns an iterator and the for loop starts.
ScanIssue ==
  /\ InLoop /\ ValidQuery(CurQuery)
  /\ retrievals' = Append(retrievals, [qi |-> qi, payload |-> QueryDict(CurQuery)])
  /\ pc' = "iter"
  /\ hitLog' = <<>>
  /\ last' = Step("scan", None)
  /\ UNCHANGED <<cycle, body, scored, helpers, conf, globalReply, qi>>

\* scan catches the exception of the search, logs it and returns None;
\* "for scannedResult in None" raises TypeError out of executeQueries.
ScanFails ==
  /\ InLoop /\ ValidQuery(CurQuery)
  /\ retrievals' = Append(retrievals, [qi |-> qi, payload |-> QueryDict(CurQuery)])
  /\ pc' = "raised"
  /\ hitLog' = <<>>
  /\ last' = Step("raise", None)
  /\ UNCHANGED <<cycle, body, scored, helpers, conf, globalReply, qi>>

\* Variant of IterHit that leaves the for loop at a malformed hit.
IterHitBreaks(h) ==
  /\ pc = "iter"
  /\ hitLog' = Append(hitLog, h)
  /\ IF ~IsDictHit(h) \/ ~Has(h, "_source")
     THEN /\ last' = Step("dropped", None)
          /\ pc' = "loop"
          /\ qi' = qi + 1
          /\ UNCHANGED globalReply
     ELSE /\ globalReply' = updateGlobalReply(globalReply, conf, h._source, CurQuery)
          /\ last' = Step("update", h._source)
          /\ UNCHANGED <<pc, qi>>
  /\ UNCHANGED <<cycle, body, scored, helpers, conf, retrievals>>

\* One iteration of "for scannedResult in scanner".
IterHit(h) ==
  /\ pc = "iter"
  /\ hitLog' = Append(hitLog, h)
  /\ IF ~IsDictHit(h) \/ ~Has(h, "_source")
     THEN /\ last' = Step("dropped", None)
          /\ UNCHANGED globalReply
     ELSE /\ globalReply' = updateGlobalReply(globalReply, conf, h._source, CurQuery)
          /\ last' = Step("update", h._source)
  /\ UNCHANGED <<cycle, body, scored, helpers, conf, pc, qi, retrievals>>

\* Variant of IterStop that stays at the same query.
IterStopSameQuery ==
  /\ pc = "iter"
  /\ pc' = "loop"
  /\ last' = Step("stop", None)
  /\ UNCHANGED <<cycle, body, scored, helpers, conf, globalReply, qi, hitLog, retrievals>>

\* The scanner is exhausted: on to the next query.
IterStop ==
  /\ pc = "iter"
  /\ pc' = "loop"
  /\ qi' = qi + 1
  /\ last' = Step("stop", None)
  /\ UNCHANGED <<cycle, body, scored, helpers, conf, globalReply, hitLog, retrievals>>

\* The scanner raises while it fetches the next page: nothing in
\* executeQueries catches it.
IterRaise ==
  /\ pc = "iter"
  /\ pc' = "raised"
  /\ last' = Step("raise", None)
  /\ UNCHANGED <<cycle, body, scored, helpers, conf, globalReply, qi, hitLog, retrievals>>

\* The loop over the queries ends and executeQueries returns.
Finish ==
  /\ pc = "loop" /\ HasQueryList(conf) /\ qi > Len(conf.queries.v)
  /\ pc' = "done"
  /\ last' = Step("return", None)
  /\ UNCHANGED <<cycle, body, scored, helpers, conf, globalReply, qi, hitLog, retrievals>>

(***************************************************************************)
(* MailBot.sendMail up to the send loop.  The body is kept as its lines;   *)
(* the field "line" tells the kinds of line apart.                         *)
(***************************************************************************)
BlankLine == [line |-> "blank"]
TitleLine(t) == [line |-> "title", title |-> t]

\* screenName + ': ' + message + link + '[' + mmid + '] [' + str(score) + ']'
EntryLine(e) ==
  [line |-> "entry",
   screenName |-> IF Has(e, "author_screen_name")
                  THEN e.author_screen_name ELSE "Unknown",
   message |-> IF Has(e, "text") THEN e.text ELSE <<"Unspecified Message">>,
   link |-> IF Has(e, "link") THEN e.link ELSE " ",
   mmid |-> IF Has(e, "mmid") THEN e.mmid ELSE "[NONE]",
   score |-> IF Has(e, "score") THEN e.score ELSE PyInt(0)]

SectionSkippingEmpty(reply) ==
  IF reply.replies = <<>> THEN <<>>
  ELSE <<TitleLine(reply.title)>>
         \o [k \in 1..Len(reply.replies) |-> EntryLine(reply.replies[k])]
         \o <<BlankLine>>

\* The lines one entry of globalReply adds to the body: its title, a line
\* for each of its replies, and the separator.
Section(reply) ==
  <<TitleLine(IF Has(reply, "title") THEN reply.title ELSE "Unspecified Title")>>
    \o [k \in 1..Len(reply.replies) |-> EntryLine(reply.replies[k])]
    \o <<BlankLine>>

RECURSIVE Sections(_)
Sections(gr) ==
  IF gr = <<>> THEN <<>> ELSE Section(Head(gr)) \o Sections(Tail(gr))

\* body = "\n", then the section of every entry of globalReply.
ReportBody(gr) == <<BlankLine>> \o Sections(gr)

\* The four settings sendMail requires are present and not null.
EmailReady(c) ==
  \A k \in {"smtp_host", "smtp_port", "user_address", "sender_address"} :
     IF Has(c.email, k) THEN c.email[k] # None ELSE FALSE

\* A required mail setting is missing: sendMail logs the error and returns.
SendMailNoSettings ==
  /\ pc = "done" /\ ~EmailReady(conf)
  /\ pc' = "end"
  /\ last' = Step("nomail", None)
  /\ UNCHANGED <<cycle, body, scored, helpers, conf, globalReply, qi, hitLog, retrievals>>

\* sendMail builds the body of the mail and reaches the send loop.
SendMailBuild ==
  /\ pc = "done" /\ EmailReady(conf)
  /\ body' = ReportBody(globalReply)
  /\ pc' = "send"
  /\ last' = Step("mail", None)
  /\ UNCHANGED <<cycle, scored, helpers, conf, globalReply, qi, hitLog, retrievals>>

RerunResets ==
  /\ pc = "done" /\ cycle < MaxCycles
  /\ cycle' = cycle + 1
  /\ pc' = "loop"
  /\ qi' = 1
  /\ hitLog' = <<>>
  /\ retrievals' = <<>>
  /\ last' = Step("rerun", None)
  /\ globalReply' = InitGlobalReply(conf)
  /\ UNCHANGED <<body, scored, helpers, conf>>

\* executeQueries is called again on the same MailBot: nothing in it
\* touches globalReply before the loop over the queries.
Rerun ==
  /\ pc = "done" /\ cycle < MaxCycles
  /\ cycle' = cycle + 1
  /\ pc' = "loop"
  /\ qi' = 1
  /\ hitLog' = <<>>
  /\ retrievals' = <<>>
  /\ last' = Step("rerun", None)
  /\ UNCHANGED <<body, scored, helpers, conf, globalReply>>

Next ==
  \/ NoQueriesSection
  \/ QueriesNotList
  \/ SkipNoQuery
  \/ SkipNoTitle
  \/ ScanIssue
  \/ ScanFails
  \/ \E h \in NextHits(hitLog) : IterHit(h)
  \/ IterStop
  \/ IterRaise
  \/ Finish
  \/ SendMailNoSettings
  \/ SendMailBuild

Spec == Init /\ [][Next]_vars

(***************************************************************************)
(* ScoringHelper.scoreContent called on its own: the scoring sections, the *)
(* configurations and the records it is called with.                       *)
(***************************************************************************)
KeywordsA == D({[keyword |-> <<"A">>, points |-> I(3)],
                [keyword |-> <<"c">>, points |-> I(5)],
                [keyword |-> <<"x">>, points |-> S("many")]})
KeywordsB == D({[keyword |-> <<"b">>, points |-> I(1)]})

ScoringSections ==
  {None, I(5), S("none"), L(<<>>),
   [points_per_word |-> I(1)],
   [points_per_word |-> I(2)],
   [points_per_word |-> S("many"), hashtag_heck |-> I(2)],
   [locality_multiplier |-> I(3)],
   [locality_multiplier |-> S("far"), points_per_word |-> I(1)],
   [interested_words |-> KeywordsA, disinterested_words |-> KeywordsB],
   [interested_words |-> S("none"), shoutout_heck |-> I(1)],
   [references_to_me |-> I(4), shoutout_heck |-> S("loud")],
   [references_to_me |-> I(4), shoutout_heck |-> I(1)]}

Handles == D([social_media_handles |-> L(<<<<"a", "b">>, <<"c">>>>)])

ScoreConfigs ==
  LET ids == {<<>>, [user_identification |-> Handles]}
  IN {[scoring |-> sc] @@ u : sc \in ScoringSections, u \in ids}
       \cup {[elastic |-> Elastic] @@ u : u \in ids}

ScoreRecords ==
  {None, NotADict,
   [mmid |-> "m1"],
   [text |-> <<"a", " ", "b">>],
   [text |-> <<"a", " ", "b", " ", "c">>],
   [text |-> <<"a", " ", " ", "A">>],
   [text |-> <<>>, references |-> L(<<<<"@", "a", "b">>, <<"@", "A", "b", "c">>>>)],
   [text |-> <<"a", " ", "b">>, locality_confidence |-> 1],
   [text |-> <<"x">>, locality_confidence |-> Scale],
   [text |-> <<"a">>, hashtags |-> L(<<"h", "g">>)],
   [text |-> <<"b">>, references |-> L(<<<<"@", "A", "B">>, <<"@", "c">>>>)],
   [text |-> <<"a">>, hashtags |-> S("h"), references |-> L(<<>>)]}

InitScore ==
  /\ conf \in ScoreConfigs
  /\ globalReply = <<>>
  /\ pc = "score"
  /\ qi = 1
  /\ hitLog = <<>>
  /\ retrievals = <<>>
  /\ last = [kind |-> "init", qi |-> 0, record |-> None, before |-> <<>>]
  /\ cycle = 1
  /\ body = <<>>
  /\ scored = None
  /\ HelpersIdle

\* One call scoringHelper.scoreContent(record): it returns a score or
\* raises.
ScoreRecord(record) ==
  /\ pc = "score"
  /\ scored' = IF scoreContentRaises(conf, record)
               THEN [record |-> record, raised |-> TRUE, score |-> PyInt(0)]
               ELSE [record |-> record, raised |-> FALSE,
                     score |-> scoreContent(conf, record)]
  /\ UNCHANGED <<cycle, body, helpers, conf, globalReply, pc, qi, hitLog, retrievals,
                 last>>

NextScore == \E record \in ScoreRecords : ScoreRecord(record)

SpecScore == InitScore /\ [][NextScore]_vars

NextCycles == Next \/ Rerun

SpecCycles == InitCycles /\ [][NextCycles]_vars

\* The MailBot while one of the helpers is exercised on its own.
MailBotIdle ==
  /\ conf = Base
  /\ globalReply = <<>>
  /\ pc = "idle"
  /\ qi = 1
  /\ hitLog = <<>>
  /\ retrievals = <<>>
  /\ last = [kind |-> "init", qi |-> 0, record |-> None, before |-> <<>>]
  /\ cycle = 1
  /\ body = <<>>
  /\ scored = None

(***************************************************************************)
(* The send loop of MailBot.sendMail (mailbot.py:229-255): every pass is   *)
(* one SMTP attempt, which is sent or raises.                              *)
(***************************************************************************)
\* sendMail has built the body for the digest of a cycle that admitted
\* nothing and enters the loop with nextAttempt = 10.0.
InitSend ==
  /\ \E c \in Configs : EmailReady(c) /\ conf = c
  /\ globalReply = InitGlobalReply(conf)
  /\ pc = "send"
  /\ qi = 1
  /\ hitLog = <<>>
  /\ retrievals = <<>>
  /\ last = [kind |-> "mail", qi |-> 0, record |-> None, before |-> globalReply]
  /\ cycle = 1
  /\ body = ReportBody(globalReply)
  /\ scored = None
  /\ HelpersIdle

\* server.sendmail returned: break.
SendSucceeds ==
  /\ pc = "send"
  /\ attempts' = attempts + 1
  /\ pc' = "sent"
  /\ UNCHANGED <<conf, globalReply, qi, hitLog, retrievals, last, cycle, body,
                 scored, nextAttempt, mmids, replied, parsed, twitterBot,
                 twitterLog>>

SendFailsRetrySameWait ==
  /\ pc = "send" /\ ~(nextAttempt > GiveUpWait)
  /\ attempts' = attempts + 1
  /\ UNCHANGED <<mailBot, nextAttempt, mmids, replied, parsed, twitterBot,
                 twitterLog>>

\* The attempt raised and nextAttempt is not above 2600: sleep nextAttempt
\* seconds, double it and try again.
SendFailsRetry ==
  /\ pc = "send" /\ ~(nextAttempt > GiveUpWait)
  /\ attempts' = attempts + 1
  /\ nextAttempt' = nextAttempt * 2
  /\ UNCHANGED <<mailBot, mmids, replied, parsed, twitterBot, twitterLog>>

\* The attempt raised and nextAttempt is above 2600: log the error, break.
SendFailsGiveUp ==
  /\ pc = "send" /\ nextAttempt > GiveUpWait
  /\ attempts' = attempts + 1
  /\ pc' = "gaveup"
  /\ UNCHANGED <<conf, globalReply, qi, hitLog, retrievals, last, cycle, body,
                 scored, nextAttempt, mmids, replied, parsed, twitterBot,
                 twitterLog>>

NextSend == SendSucceeds \/ SendFailsRetry \/ SendFailsGiveUp

\* Every SMTP attempt and every sleep comes to an end.
SpecSend == InitSend /\ [][NextSend]_vars /\ WF_vars(NextSend)

(***************************************************************************)
(* MMIDHelper.generateID (utils.py:299-313).                               *)
(***************************************************************************)
\* The digits of base62.encode: 0-9, A-Z, a-z.
Charset ==
  <<"0", "1", "2", "3", "4", "5", "6", "7", "8", "9",
    "A", "B", "C", "D", "E", "F", "G", "H", "I", "J", "K", "L", "M",
    "N", "O", "P", "Q", "R", "S", "T", "U", "V", "W", "X", "Y", "Z",
    "a", "b", "c", "d", "e", "f", "g", "h", "i", "j", "k", "l", "m",
    "n", "o", "p", "q", "r", "s", "t", "u", "v", "w", "x", "y", "z">>

\* base62.encode(n): the digits of n, most significant first; "0" for 0.
RECURSIVE Digits62(_)
Digits62(n) ==
  IF n = 0 THEN <<>>
  ELSE Append(Digits62(n \div Base62), Charset[(n % Base62) + 1])

Base62Encode(n) == IF n = 0 THEN <<"0">> ELSE Digits62(n)

\* str.zfill(width): zeros in front up to the width, never a cut.
Zfill(t, width) ==
  IF Len(t) >= width THEN t
  ELSE [k \in 1..(width - Len(t)) |-> "0"] \o t

\* totalCodes = (62 * 62 * 62 * 62 * 62) - 1
TotalCodes == (Base62 * Base62 * Base62 * Base62 * Base62) - 1

generateIDUnpadded(timeNow) == Base62Encode(timeNow % TotalCodes)

\* The ID generated when int(time.time() * 100) is timeNow.
generateID(timeNow) == Zfill(Base62Encode(timeNow % TotalCodes), IdWidth)

\* The clock values, in hundredths of a second, at which IDs are generated:
\* values around the powers of the base and around the multiples of
\* totalCodes.
ClockValues ==
  {0, 1, Base62 - 1, Base62, Base62 * Base62 - 1, Base62 * Base62,
   TotalCodes - 1, TotalCodes, TotalCodes + 1, TotalCodes + Base62,
   2 * TotalCodes - 1, 2 * TotalCodes, 2 * TotalCodes + 1}

InitMmid == MailBotIdle /\ HelpersIdle

\* One call mmidHelper.generateID() at the clock value timeNow.
GenerateID(timeNow) ==
  /\ Len(mmids) < MaxIds
  /\ mmids' = Append(mmids, [time |-> timeNow, id |-> generateID(timeNow)])
  /\ UNCHANGED <<mailBot, nextAttempt, attempts, replied, parsed,
                 twitterBot, twitterLog>>

NextMmid == \E timeNow \in ClockValues : GenerateID(timeNow)

SpecMmid == InitMmid /\ [][NextMmid]_vars

(***************************************************************************)
(* ReplyBot.processEmail (replybot.py:71-119) and MMIDHelper.isBlacklisted *)
(* (utils.py:315-340).  A mail is a list of lines of bytes; a line is      *)
(* written as the sequence of its characters.                              *)
(***************************************************************************)
\* The first place from which sep occurs in s at or after from; 0 if none.
Find(s, sep, from) ==
  LET at == {i \in from..(Len(s) - Len(sep) + 1) :
               SubSeq(s, i, i + Len(sep) - 1) = sep}
  IN IF at = {} THEN 0 ELSE CHOOSE i \in at : \A j \in at : i <= j

\* s.split(sep)
RECURSIVE Split(_, _)
Split(s, sep) ==
  LET i == Find(s, sep, 1)
  IN IF i = 0 THEN <<s>>
     ELSE <<SubSeq(s, 1, i - 1)>> \o Split(SubSeq(s, i + Len(sep), Len(s)), sep)

\* str(line) of a line of bytes: b'...', or b"..." when the line holds a
\* single quote and no double quote.
StrOfBytes(line) ==
  IF (\E i \in 1..Len(line) : line[i] = "'")
       /\ ~(\E i \in 1..Len(line) : line[i] = "\"")
  THEN <<"b", "\"">> \o line \o <<"\"">>
  ELSE <<"b", "'">> \o line \o <<"'">>

\* t[:len(t) - 1]
DropLast(t) == IF t = <<>> THEN <<>> ELSE SubSeq(t, 1, Len(t) - 1)

\* The cleaned line: the second piece of the split at b' , or else at b" ,
\* without its last character; empty when there is neither.
CleanLine(line) ==
  LET str    == StrOfBytes(line)
      parts1 == Split(str, <<"b", "'">>)
      parts2 == Split(str, <<"b", "\"">>)
  IN IF Len(parts1) > 1 THEN DropLast(parts1[2])
     ELSE IF Len(parts2) > 1 THEN DropLast(parts2[2])
     ELSE <<>>

RECURSIVE CleanMessage(_)
CleanMessage(message) ==
  IF message = <<>> THEN <<>>
  ELSE CleanLine(Head(message)) \o CleanMessage(Tail(message))

\* MMIDHelper.isBlacklisted
isBlacklisted(c, mmid) ==
  IF ~Has(c, "tokens") THEN FALSE
  ELSE IF ~Has(c.tokens, "blacklist") THEN FALSE
  ELSE IF IsList(c.tokens.blacklist)
       THEN \E k \in 1..Len(c.tokens.blacklist.v) :
               c.tokens.blacklist.v[k] = mmid
       ELSE FALSE

\* The calls of processMessage the loop over the pieces of the split at
\* "[" makes: one for a piece of more than 6 characters whose sixth is "]"
\* and whose first five are not blacklisted.
RECURSIVE CallsFor(_, _)
CallsFor(c, parts) ==
  IF parts = <<>> THEN <<>>
  ELSE LET part == Head(parts)
       IN (IF Len(part) > 6
           THEN IF part[6] = "]" /\ ~isBlacklisted(c, SubSeq(part, 1, 5))
                THEN <<[mmid |-> SubSeq(part, 1, 5),
                        messageBody |-> Split(part, <<"]">>)[2]]>>
                ELSE <<>>
           ELSE <<>>) \o CallsFor(c, Tail(parts))

processEmail(c, message) == CallsFor(c, Split(CleanMessage(message), <<"[">>))

\* The lines of the mails.
Chars(n, ch) == [k \in 1..n |-> ch]
TokA == <<"[">> \o Chars(5, "a") \o <<"]">>
TokB == <<"[">> \o Chars(5, "k") \o <<"]">>
MailLines ==
  {TokA \o <<" ", "x">>,
   TokB \o <<" ", "x">>,
   TokA,
   TokB \o TokA \o <<" ", "x">>,
   Chars(5, "a") \o <<"]", " ", "x">>,
   <<"[">> \o Chars(4, "a") \o <<"]", " ", "x">>,
   TokA \o <<" ", "x", " ", "B", "o", "b", "'", "s">>,
   <<"[", "a", "a">>,
   <<"a", "a", "a", "]", " ", "x">>,
   <<"x">>}

RECURSIVE SeqsUpTo(_, _)
SeqsUpTo(lines, n) ==
  IF n = 0 THEN {<<>>}
  ELSE LET shorter == SeqsUpTo(lines, n - 1)
       IN shorter \cup {Append(m, x) : m \in shorter, x \in lines}

Messages == SeqsUpTo(MailLines, MaxLines)

ReplyConfigs ==
  {Base,
   Base @@ [tokens |-> [blacklist |-> L(<<Chars(5, "k")>>)]],
   Base @@ [tokens |-> [whitelist |-> L(<<>>)]],
   Base @@ [tokens |-> [blacklist |-> S("kkkkk")]]}

InitReply ==
  /\ \E c \in ReplyConfigs : conf = c
  /\ globalReply = <<>>
  /\ pc = "idle"
  /\ qi = 1
  /\ hitLog = <<>>
  /\ retrievals = <<>>
  /\ last = [kind |-> "init", qi |-> 0, record |-> None, before |-> <<>>]
  /\ cycle = 1
  /\ body = <<>>
  /\ scored = None
  /\ HelpersIdle

\* The call replyBot.processEmail(message).
ProcessEmail(message) ==
  /\ replied = None
  /\ replied' = [message |-> message, calls |-> processEmail(conf, message)]
  /\ UNCHANGED <<mailBot, nextAttempt, attempts, mmids, parsed, twitterBot,
                 twitterLog>>

NextReply == \E message \in Messages : ProcessEmail(message)

SpecReply == InitReply /\ [][NextReply]_vars

(***************************************************************************)
(* ElasticSearchHelper.parseQueryResults (utils.py:93-141).                *)
(***************************************************************************)
\* The first loop: the _source of every hit that is a dictionary with a
\* _source that is a dictionary.
RECURSIVE WorkingResults(_)
WorkingResults(hits) ==
  IF hits = <<>> THEN <<>>
  ELSE LET esRecord == Head(hits)
       IN (IF esRecord = NotADict THEN <<>>
           ELSE IF ~Has(esRecord, "_source") THEN <<>>
           ELSE IF NoRecord(esRecord._source) THEN <<>>
           ELSE <<esRecord._source>>) \o WorkingResults(Tail(hits))

\* The second loop: with an mmid given, a result with another mmid is
\* skipped and a result with that mmid is added in the branch of the match;
\* every result that was not skipped is then added by the last statement of
\* the loop body.
RECURSIVE ResultsReturned(_, _)
ResultsReturned(working, mmid) ==
  IF working = <<>> THEN <<>>
  ELSE LET result == Head(working)
       IN (IF mmid # None /\ Has(result, "mmid")
           THEN IF result.mmid = mmid.v THEN <<result, result>> ELSE <<>>
           ELSE <<result>>) \o ResultsReturned(Tail(working), mmid)

parseQueryResults(queryResults, mmid) ==
  IF NoRecord(queryResults) THEN <<>>
  ELSE IF ~Has(queryResults, "hits") THEN <<>>
  ELSE IF ~IsDict(queryResults.hits) THEN <<>>
  ELSE IF ~Has(queryResults.hits.v, "hits") THEN <<>>
  ELSE IF ~IsList(queryResults.hits.v.hits) THEN <<>>
  ELSE ResultsReturned(WorkingResults(queryResults.hits.v.hits.v), mmid)

\* The hits of a query result and the query results.
EsHits ==
  {Hit(DocA), Hit(DocB), Hit(DocA2), Hit(DocNoMmid),
   NotADict, NoSource, [_source |-> NotADict]}

QueryResults ==
  {None, NotADict, [took |-> I(1)], [hits |-> S("none")],
   [hits |-> D([total |-> I(0)])], [hits |-> D([hits |-> S("none")])]}
    \cup {[hits |-> D([hits |-> L(hs)])] : hs \in SeqsUpTo(EsHits, MaxHits)}

\* The mmid argument: not given, the mmid of a record, the mmid of none.

InitParse == MailBotIdle /\ HelpersIdle

\* The call parseQueryResults(queryResults, mmid).
ParseQueryResults(queryResults, mmid) ==
  /\ parsed = None
  /\ parsed' = [queryResults |-> queryResults, mmid |-> mmid,
                returned |-> parseQueryResults(queryResults, mmid)]
  /\ UNCHANGED <<mailBot, nextAttempt, attempts, mmids, replied, twitterBot,
                 twitterLog>>

NextParse ==
  \E queryResults \in QueryResults, mmid \in {None, S("m1"), S("m9")} :
     ParseQueryResults(queryResults, mmid)

SpecParse == InitParse /\ [][NextParse]_vars

(***************************************************************************)
(* TwitterBot (twitterbot.py).  twitterBot holds the attributes of the     *)
(* object: __init__ starts the stream with is_async=True, which runs the   *)
(* callbacks on the thread of the stream, and only then sets               *)
(* twitterErrorCounter.  twitterLog describes the last callback and counts *)
(* the errors received since the last tweet with text.                     *)
(***************************************************************************)

\* The thread of the stream runs, and delivers less than MaxErrors errors
\* in a row.
Streaming == twitterBot.myStream = "running"

\* __init__: self.myStream.filter(..., is_async=True)
StartStream ==
  /\ twitterBot.myStream = "none"
  /\ twitterBot' = [myStream |-> "running", constructed |-> FALSE]
  /\ UNCHANGED <<mailBot, nextAttempt, attempts, mmids, replied, parsed,
                 twitterLog>>

\* __init__: self.twitterErrorCounter = 0, its last statement.
SetCounter ==
  /\ Streaming /\ ~twitterBot.constructed
  /\ twitterBot' = [myStream |-> "running", constructed |-> TRUE,
                    twitterErrorCounter |-> 0]
  /\ UNCHANGED <<mailBot, nextAttempt, attempts, mmids, replied, parsed,
                 twitterLog>>

\* on_data with None, with data that is not JSON or with a tweet without
\* text: it returns before the counter is touched.
OnDataNoText ==
  /\ Streaming
  /\ twitterLog' = [call |-> "on_data", text |-> FALSE,
                    errors |-> twitterLog.errors]
  /\ UNCHANGED <<mailBot, nextAttempt, attempts, mmids, replied, parsed,
                 twitterBot>>

\* on_data with a tweet that has text: the counter is set to zero.
OnDataText ==
  /\ Streaming
  /\ twitterBot' = [myStream |-> "running",
                    constructed |-> twitterBot.constructed,
                    twitterErrorCounter |-> 0]
  /\ twitterLog' = [call |-> "on_data", text |-> TRUE, errors |-> 0]
  /\ UNCHANGED <<mailBot, nextAttempt, attempts, mmids, replied, parsed>>

\* on_error(None): it returns at once.
OnErrorNone ==
  /\ Streaming
  /\ twitterLog' = [call |-> "on_error", status |-> None, raised |-> FALSE,
                    logged |-> FALSE, errors |-> twitterLog.errors]
  /\ UNCHANGED <<mailBot, nextAttempt, attempts, mmids, replied, parsed,
                 twitterBot>>

\* on_error(status): reading the counter raises AttributeError when the
\* attribute does not exist yet; otherwise it logs the error when the
\* counter is 3 or more and adds one to the counter when it is less.
OnError(status) ==
  /\ Streaming /\ twitterLog.errors < MaxErrors
  /\ IF ~Has(twitterBot, "twitterErrorCounter")
     THEN /\ twitterLog' = [call |-> "on_error", status |-> status,
                            raised |-> TRUE, logged |-> FALSE,
                            errors |-> twitterLog.errors + 1]
          /\ UNCHANGED twitterBot
     ELSE IF twitterBot.twitterErrorCounter >= ErrorLimit
     THEN /\ twitterLog' = [call |-> "on_error", status |-> status,
                            raised |-> FALSE, logged |-> TRUE,
                            errors |-> twitterLog.errors + 1]
          /\ UNCHANGED twitterBot
     ELSE /\ twitterLog' = [call |-> "on_error", status |-> status,
                            raised |-> FALSE, logged |-> FALSE,
                            errors |-> twitterLog.errors + 1]
          /\ twitterBot' =
               [twitterBot EXCEPT !.twitterErrorCounter = @ + 1]
  /\ UNCHANGED <<mailBot, nextAttempt, attempts, mmids, replied, parsed>>

\* The status codes Twitter sends.

NextTwitter ==
  \/ StartStream
  \/ SetCounter
  \/ OnDataNoText
  \/ OnDataText
  \/ OnErrorNone
  \/ \E status \in {I(420), I(401)} : OnError(status)

InitTwitter == MailBotIdle /\ HelpersIdle
SpecTwitter == InitTwitter /\ [][NextTwitter]_vars

(***************************************************************************)
(* Vocabulary of the properties.                                           *)
(***************************************************************************)
Queries == IF HasQueryList(conf) THEN conf.queries.v ELSE <<>>

\* The replies list of the topic with this title in a digest.
BucketIn(gr, title) ==
  LET i == CHOOSE k \in 1..Len(gr) : gr[k].title = title IN gr[i].replies

Titled == {i \in 1..Len(Queries) : Has(Queries[i], "title")}

\* The capacity the configuration gives a topic.
Capacity(q) == IF Has(q, "hit_limit") THEN q.hit_limit ELSE 10

\* The last step was a call updateGlobalReply(last.record, Queries[last.qi]).
Called == last.kind = "update"
CalledQuery == Queries[last.qi]
BucketBefore == BucketIn(last.before, CalledQuery.title)
BucketAfter == BucketIn(globalReply, CalledQuery.title)

TextIn(b, t) == \E k \in 1..Len(b) : b[k].text = t
EntryIn(b, e) == \E k \in 1..Len(b) : b[k] = e
PosIn(b, e) == CHOOSE k \in 1..Len(b) : b[k] = e

\* C1: after every call of updateGlobalReply each topic's replies list holds
\* at most hitLimit entries, hitLimit being the topic's positive hit_limit,
\* or 10 when the topic configures none.
C1_BucketWithinHitLimit ==
  \A i \in Titled :
     Capacity(Queries[i]) > 0
       => Len(BucketIn(globalReply, Queries[i].title)) <= Capacity(Queries[i])

\* A topic without hit_limit held 10 entries, a call admitted one more and
\* the bucket holds 10 entries again.
C1_Witness ==
  /\ Called
  /\ ~Has(CalledQuery, "hit_limit")
  /\ Len(BucketBefore) = 10
  /\ BucketAfter # BucketBefore
  /\ Len(BucketAfter) = 10

\* C2: after every call of updateGlobalReply the topic's replies list is in
\* non-increasing order of score, the entries that were in the list before
\* the call keep their relative order, and an entry the call admitted stands
\* behind every older entry of equal score.
C2_SortedStable ==
  /\ \A i \in Titled :
       LET b == BucketIn(globalReply, Queries[i].title)
       IN \A k \in 1..(Len(b) - 1) : b[k].score.val >= b[k + 1].score.val
  /\ Called =>
       \A k \in 1..Len(BucketAfter) : \A m \in (k + 1)..Len(BucketAfter) :
          LET x == BucketAfter[k]
              y == BucketAfter[m]
          IN /\ EntryIn(BucketBefore, y) => EntryIn(BucketBefore, x)
                                             \/ x.score.val > y.score.val
             /\ EntryIn(BucketBefore, x) /\ EntryIn(BucketBefore, y)
                  => PosIn(BucketBefore, x) < PosIn(BucketBefore, y)

\* A call admitted an entry whose score equals that of an older entry.
C2_Witness ==
  /\ Called
  /\ \E k \in 1..Len(BucketAfter) : \E m \in (k + 1)..Len(BucketAfter) :
        /\ BucketAfter[k].score = BucketAfter[m].score
        /\ EntryIn(BucketBefore, BucketAfter[k])
        /\ ~EntryIn(BucketBefore, BucketAfter[m])

\* C3: no two entries of one topic's replies list have the same text.
C3_DistinctTexts ==
  \A i \in Titled :
     LET b == BucketIn(globalReply, Queries[i].title)
     IN \A k, m \in 1..Len(b) : k # m => b[k].text # b[m].text

\* A record whose text is already in the bucket was offered to a bucket of
\* two entries.
C3_Witness ==
  /\ Called
  /\ Has(last.record, "text")
  /\ TextIn(BucketBefore, last.record.text)
  /\ Len(BucketAfter) >= 2

(***************************************************************************)
(* The hits of the last retrieval, as the records offered for admission.   *)
(***************************************************************************)
Retrieved == {retrievals[k].qi : k \in 1..Len(retrievals)}
LastQuery == Queries[retrievals[Len(retrievals)].qi]

Admissible(h) ==
  /\ IsDictHit(h) /\ Has(h, "_source")
  /\ Has(h._source, "text") /\ h._source.text # <<>>
  /\ Has(h._source, "mmid")

DistinctAdmissible(log) ==
  /\ \A k \in 1..Len(log) : Admissible(log[k])
  /\ \A k, m \in 1..Len(log) : k # m => log[k]._source.text # log[m]._source.text

ScoreOf(h) == scoreContent(conf, h._source).val

\* The place of the k-th record in the stable descending sort of the log:
\* behind the records of higher score and the earlier ones of equal score.
RankIn(log, k) ==
  1 + Cardinality({m \in 1..Len(log) :
                     \/ ScoreOf(log[m]) > ScoreOf(log[k])
                     \/ ScoreOf(log[m]) = ScoreOf(log[k]) /\ m < k})

AtRank(log, r) == log[CHOOSE k \in 1..Len(log) : RankIn(log, k) = r]

Min(a, b) == IF a <= b THEN a ELSE b

\* C4: after the admission, in order, of records with pairwise distinct
\* non-empty text and an mmid into an empty bucket of positive hitLimit, the
\* bucket is the first hitLimit entries of the stable descending sort of the
\* whole sequence.
C4_TopOfStableSort ==
  (Len(retrievals) > 0 /\ DistinctAdmissible(hitLog)
     /\ Capacity(LastQuery) > 0)
    => LET b == BucketIn(globalReply, LastQuery.title)
       IN /\ Len(b) = Min(Capacity(LastQuery), Len(hitLog))
          /\ \A r \in 1..Len(b) :
                /\ b[r].text = AtRank(hitLog, r)._source.text
                /\ b[r].mmid = AtRank(hitLog, r)._source.mmid
                /\ b[r].score.val = ScoreOf(AtRank(hitLog, r))

\* hit_limit 2 and three records whose scores are middle, high, low: the
\* bucket holds the high one, then the middle one.
C4_Witness ==
  /\ Len(retrievals) > 0 /\ pc = "iter" /\ DistinctAdmissible(hitLog)
  /\ Has(LastQuery, "hit_limit") /\ LastQuery.hit_limit = 2
  /\ Len(hitLog) = 3
  /\ ScoreOf(hitLog[3]) < ScoreOf(hitLog[1])
  /\ ScoreOf(hitLog[1]) < ScoreOf(hitLog[2])
  /\ Len(BucketIn(globalReply, LastQuery.title)) = 2
  /\ BucketIn(globalReply, LastQuery.title)[1].text = hitLog[2]._source.text
  /\ BucketIn(globalReply, LastQuery.title)[2].text = hitLog[1]._source.text

\* C5: a call of updateGlobalReply with a record whose text is the text of
\* an entry of the topic's bucket leaves the digest unchanged, whatever the
\* record's other fields are.
C5_DuplicateTextNoChange ==
  (Called /\ Has(last.record, "text") /\ TextIn(BucketBefore, last.record.text))
    => globalReply = last.before

\* The duplicate has another mmid and would have scored higher than the
\* entry that has its text.
C5_Witness ==
  /\ Called
  /\ Has(last.record, "text") /\ Has(last.record, "mmid")
  /\ \E k \in 1..Len(BucketBefore) :
        /\ BucketBefore[k].text = last.record.text
        /\ BucketBefore[k].mmid # last.record.mmid
        /\ BucketBefore[k].score.val < scoreContent(conf, last.record).val
  /\ globalReply = last.before

\* C6: a call of updateGlobalReply with a record that has no text, or the
\* empty string as text, leaves every bucket unchanged.
C6_EmptyTextNoChange ==
  (Called /\ (~Has(last.record, "text") \/ last.record.text = <<>>))
    => globalReply = last.before

\* A record with an mmid and the empty text was offered to a bucket that has
\* room for it.
C6_Witness ==
  /\ Called
  /\ Has(last.record, "text") /\ last.record.text = <<>>
  /\ Has(last.record, "mmid")
  /\ Capacity(CalledQuery) > Len(BucketBefore)
  /\ globalReply = last.before

\* C7: a call of updateGlobalReply with a record of non-empty text that no
\* entry of the bucket has, and without mmid, adds no entry and leaves the
\* bucket's contents and order unchanged.
C7_MissingMmidNoChange ==
  (Called /\ Has(last.record, "text") /\ last.record.text # <<>>
     /\ ~TextIn(BucketBefore, last.record.text) /\ ~Has(last.record, "mmid"))
    => BucketAfter = BucketBefore

\* Such a record was offered to a non-empty bucket that has room for it.
C7_Witness ==
  /\ Called
  /\ Has(last.record, "text") /\ last.record.text # <<>>
  /\ ~TextIn(BucketBefore, last.record.text) /\ ~Has(last.record, "mmid")
  /\ Len(BucketBefore) > 0
  /\ Capacity(CalledQuery) > Len(BucketBefore)
  /\ BucketAfter = BucketBefore

Offered == last.kind \in {"update", "dropped"}

\* C8: a failure of the search collaborator for one topic does not make
\* executeQueries raise, and every later topic that has a query and a title
\* is still retrieved.
C8_SearchFailureContained ==
  /\ pc # "raised"
  /\ pc = "done" =>
       \A i \in 1..Len(Queries) :
          (Has(Queries[i], "query") /\ Has(Queries[i], "title")) => i \in Retrieved

\* C9: a topic without a query field is never retrieved, no hit is offered
\* for it and its bucket stays empty; the step that skips it changes no
\* bucket and goes on to the next topic, a cycle that completes has
\* retrieved every topic that has a query and a title, and the bucket of a
\* retrieved topic of positive hitLimit is not empty once one of its hits
\* had a non-empty text and an mmid.
C9_NoQuerySkipped ==
  /\ \A i \in 1..Len(Queries) :
        ~Has(Queries[i], "query") =>
           /\ i \notin Retrieved
           /\ Offered => last.qi # i
           /\ i \in Titled => BucketIn(globalReply, Queries[i].title) = <<>>
  /\ (last.kind = "skip" /\ ~Has(Queries[last.qi], "query")) =>
        pc = "loop" /\ qi = last.qi + 1 /\ globalReply = last.before
  /\ pc = "done" =>
        \A i \in 1..Len(Queries) :
           (Has(Queries[i], "query") /\ Has(Queries[i], "title")) => i \in Retrieved
  /\ (Len(retrievals) > 0 /\ Capacity(LastQuery) > 0
        /\ \E k \in 1..Len(hitLog) : Admissible(hitLog[k]))
       => BucketIn(globalReply, LastQuery.title) # <<>>

\* A cycle with a topic without query has completed and another topic of it
\* was retrieved and has an entry.
C9_Witness ==
  /\ pc = "done"
  /\ \E i \in Titled : ~Has(Queries[i], "query")
  /\ \E j \in Retrieved : BucketIn(globalReply, Queries[j].title) # <<>>

EmptyTopic(q) ==
  \/ Has(q, "title") /\ q.title = ""
  \/ Has(q, "query") /\ q.query = {}

\* C10 as stated: a topic whose title or search criteria are empty is never
\* retrieved and no hit is offered for it.
C10_EmptyTopicSkipped ==
  \A i \in 1..Len(Queries) :
     EmptyTopic(Queries[i]) => i \notin Retrieved /\ (Offered => last.qi # i)

\* C10 amended: a topic whose title or search criteria are absent is never
\* retrieved and no hit is offered for it, the step that skips it changes no
\* bucket and goes on to the next topic; a topic whose title and criteria
\* are present, empty or not, has been retrieved when the cycle completes.
C10_AbsentTopicSkipped ==
  /\ \A i \in 1..Len(Queries) :
        (~Has(Queries[i], "title") \/ ~Has(Queries[i], "query")) =>
           i \notin Retrieved /\ (Offered => last.qi # i)
  /\ last.kind = "skip" =>
        pc = "loop" /\ qi = last.qi + 1 /\ globalReply = last.before
  /\ pc = "done" =>
        \A i \in 1..Len(Queries) :
           (EmptyTopic(Queries[i]) /\ Has(Queries[i], "title")
              /\ Has(Queries[i], "query")) => i \in Retrieved

\* A cycle has completed that skipped a topic without title, retrieved a
\* topic with the empty title and one with empty criteria, and admitted an
\* entry for the empty title.
C10_Witness ==
  /\ pc = "done"
  /\ \E i \in 1..Len(Queries) : ~Has(Queries[i], "title") /\ i \notin Retrieved
  /\ \E i \in Retrieved : Queries[i].title = ""
                            /\ BucketIn(globalReply, "") # <<>>
  /\ \E i \in Retrieved : Queries[i].query = {}

\* A raw hit that is no dictionary, has no _source, or whose payload has no
\* text.
Malformed(h) ==
  \/ ~IsDictHit(h)
  \/ ~Has(h, "_source")
  \/ ~Has(h._source, "text")

\* The hits of a log that are not malformed, in their order.
RECURSIVE WellFormed(_)
WellFormed(log) ==
  IF log = <<>> THEN <<>>
  ELSE (IF Malformed(Head(log)) THEN <<>> ELSE <<Head(log)>>)
         \o WellFormed(Tail(log))

\* C11: the step that handles a malformed hit changes no bucket and stays
\* inside the iteration over the hits, and the later hits are admitted as if
\* the malformed ones had not been yielded: when the other hits are
\* admissible records of pairwise distinct text, the bucket is the top of
\* their stable descending sort.
C11_MalformedHitDropped ==
  /\ (hitLog # <<>> /\ last.kind \in {"update", "dropped"}
        /\ Malformed(hitLog[Len(hitLog)]))
       => globalReply = last.before /\ pc = "iter" /\ qi = last.qi
  /\ (Len(retrievals) > 0 /\ DistinctAdmissible(WellFormed(hitLog))
        /\ Capacity(LastQuery) > 0)
       => LET b == BucketIn(globalReply, LastQuery.title)
              good == WellFormed(hitLog)
          IN /\ Len(b) = Min(Capacity(LastQuery), Len(good))
             /\ \A r \in 1..Len(b) : b[r].text = AtRank(good, r)._source.text

\* A hit without _source or that is no dictionary, then a payload without
\* text, then an admissible record, which was admitted.
C11_Witness ==
  /\ Len(hitLog) = 3 /\ pc = "iter"
  /\ ~IsDictHit(hitLog[1]) \/ ~Has(hitLog[1], "_source")
  /\ IsDictHit(hitLog[2]) /\ Has(hitLog[2], "_source")
       /\ ~Has(hitLog[2]._source, "text")
  /\ Admissible(hitLog[3])
  /\ Capacity(LastQuery) > 0
  /\ TextIn(BucketIn(globalReply, LastQuery.title), hitLog[3]._source.text)

\* C12: the payload of every retrieval has the single key "query", which
\* holds the search criteria of the topic; title and hit_limit are not in it.
C12_PayloadIsCriteriaOnly ==
  \A k \in 1..Len(retrievals) :
     /\ DOMAIN retrievals[k].payload = {"query"}
     /\ retrievals[k].payload.query = Queries[retrievals[k].qi].query

\* A topic that configures title, criteria and hit_limit was retrieved.
C12_Witness ==
  \E k \in 1..Len(retrievals) :
     DOMAIN Queries[retrievals[k].qi] = {"title", "query", "hit_limit"}

\* C13: the retrievals are issued in the order of the configuration, at most
\* one per topic and only for topics with query and title; every such topic
\* the loop has passed or is at has its retrieval; a retrieval starts with a
\* fresh result sequence; every hit the scanner yields is offered at once,
\* to the topic of the running retrieval, so that all hits of a topic are
\* offered in the order returned before the next retrieval is issued.
C13_SequentialRetrievals ==
  /\ \A k, m \in 1..Len(retrievals) :
        k < m => retrievals[k].qi < retrievals[m].qi
  /\ \A i \in Retrieved : Has(Queries[i], "query") /\ Has(Queries[i], "title")
  /\ \A i \in 1..Len(Queries) :
        (Has(Queries[i], "query") /\ Has(Queries[i], "title")
           /\ (i < qi \/ (i = qi /\ pc # "loop")))
          => i \in Retrieved
  /\ last.kind = "scan" => hitLog = <<>> /\ pc = "iter"
  /\ pc = "iter" => retrievals[Len(retrievals)].qi = qi
  /\ Offered =>
        /\ hitLog # <<>>
        /\ pc = "iter"
        /\ last.qi = retrievals[Len(retrievals)].qi
        /\ last.kind = "update" => last.record = hitLog[Len(hitLog)]._source
  /\ pc = "done" => qi = Len(Queries) + 1 \/ Queries = <<>>

\* A cycle over two topics has completed; each was retrieved, the second
\* yielded two hits and both buckets have entries.
C13_Witness ==
  /\ pc = "done"
  /\ Len(retrievals) = 2
  /\ Len(hitLog) = 2
  /\ \A k \in 1..2 : BucketIn(globalReply, Queries[retrievals[k].qi].title) # <<>>

\* The titles of the configured queries that have one, in their order.
RECURSIVE TitlesOf(_)
TitlesOf(qs) ==
  IF qs = <<>> THEN <<>>
  ELSE (IF Has(Head(qs), "title") THEN <<Head(qs).title>> ELSE <<>>)
         \o TitlesOf(Tail(qs))

\* C14: in every state the digest has one bucket for each configured title,
\* in the order of the queries section, whatever has been admitted.
C14_DigestInConfiguredOrder ==
  /\ Len(globalReply) = Len(TitlesOf(Queries))
  /\ \A k \in 1..Len(globalReply) : globalReply[k].title = TitlesOf(Queries)[k]
  /\ \A k, m \in 1..Len(globalReply) :
        k # m => globalReply[k].title # globalReply[m].title

\* An admission changed the bucket of the second of two topics while the
\* bucket of the first has entries.
C14_Witness ==
  /\ Called
  /\ Len(globalReply) = 2
  /\ CalledQuery.title = globalReply[2].title
  /\ globalReply # last.before
  /\ globalReply[1].replies # <<>>

LowestScore(b) == b[Len(b)].score.val

\* C16: a call of updateGlobalReply for a topic of positive hitLimit never
\* shortens the topic's bucket, and when the bucket held hitLimit entries
\* before the call its lowest score after the call is not smaller.
C16_AdmissionMonotonic ==
  (Called /\ Capacity(CalledQuery) > 0) =>
     /\ Len(BucketAfter) >= Len(BucketBefore)
     /\ Len(BucketBefore) = Capacity(CalledQuery) =>
          /\ Len(BucketAfter) = Capacity(CalledQuery)
          /\ LowestScore(BucketAfter) >= LowestScore(BucketBefore)

\* A call on a full bucket displaced the entry of lowest score.
C16_Witness ==
  /\ Called /\ Capacity(CalledQuery) > 0
  /\ Len(BucketBefore) = Capacity(CalledQuery)
  /\ LowestScore(BucketAfter) > LowestScore(BucketBefore)

\* No bucket of the digest holds an entry.
AllBucketsEmpty == \A k \in 1..Len(globalReply) : globalReply[k].replies = <<>>

\* A cycle of executeQueries is about to start.
CycleStart == last.kind \in {"init", "rerun"}

\* C15 as stated: every cycle of executeQueries, also a further one on the
\* same MailBot, starts with every bucket empty.
C15_CycleStartsEmpty == CycleStart => AllBucketsEmpty

\* C15: the first cycle of a MailBot starts with every bucket empty, and a
\* further cycle on the same MailBot starts at the first query with the
\* digest exactly as the previous cycle left it.
C15_DigestCarriedOver ==
  /\ last.kind = "init" => AllBucketsEmpty
  /\ last.kind = "rerun" =>
       /\ globalReply = last.before
       /\ pc = "loop" /\ qi = 1 /\ cycle > 1

\* A second cycle starts while a bucket holds an entry of the first.
C15_Witness == last.kind = "rerun" /\ ~AllBucketsEmpty

\* sendMail has just built the body of the mail.
Mailed == last.kind = "mail"

\* The line of the body at which the section of the k-th topic starts.
RECURSIVE SectionStart(_, _)
SectionStart(gr, k) ==
  IF k = 1 THEN 2
  ELSE SectionStart(gr, k - 1) + Len(gr[k - 1].replies) + 2

\* C17 as stated: the body has no title line for a topic whose bucket is
\* empty.
C17_EmptyTopicNoSection ==
  Mailed =>
    \A k \in 1..Len(globalReply) :
       globalReply[k].replies = <<>> =>
         \A n \in 1..Len(body) : body[n] # TitleLine(globalReply[k].title)

\* C17: the body built by sendMail holds, after its leading blank line, one
\* section for every topic of the digest in the order of the digest: the
\* title line, one line for each entry of the bucket in bucket order, and a
\* blank separator line; the section of an empty bucket is its title line
\* followed directly by the separator.
C17_EmptyTopicTitleOnly ==
  Mailed =>
    /\ body[1] = BlankLine
    /\ Len(body) = SectionStart(globalReply, Len(globalReply) + 1) - 1
    /\ \A k \in 1..Len(globalReply) :
         LET s == SectionStart(globalReply, k)
             b == globalReply[k].replies
         IN /\ body[s] = TitleLine(globalReply[k].title)
            /\ \A j \in 1..Len(b) : body[s + j] = EntryLine(b[j])
            /\ body[s + Len(b) + 1] = BlankLine

\* A body was built for a digest with an empty and a non-empty bucket.
C17_Witness ==
  /\ Mailed
  /\ \E k \in 1..Len(globalReply) : globalReply[k].replies = <<>>
  /\ \E k \in 1..Len(globalReply) : globalReply[k].replies # <<>>

\* scoreContent has been called and has returned a score.
Scored == scored # None
Returned == IF Scored THEN ~scored.raised ELSE FALSE

\* C18 as stated: every score scoreContent returns is an integer.
C18_ScoreIsInteger == Returned => ~scored.score.isFloat

\* C19 as stated: no call of scoreContent raises.
C19_NeverRaises == Scored => ~scored.raised

\* C20: when the configuration has no scoring section, scoreContent returns
\* the integer 0 for every record.
C20_NoScoringSectionZero ==
  (Scored /\ ~Has(conf, "scoring")) =>
     /\ ~scored.raised
     /\ scored.score = PyInt(0)

\* A record with a text and a reference to a configured handle was scored
\* under a configuration without a scoring section.
C20_Witness ==
  /\ Scored /\ ~Has(conf, "scoring") /\ HasHandles(conf)
  /\ IF scored.record = None \/ scored.record = NotADict THEN FALSE
     ELSE NonEmptyList(scored.record, "references")

\* The record scoreContent was called with is a dictionary with a text.
ScoredText == IF Returned THEN Has(scored.record, "text") ELSE FALSE

\* Only these rules are configured in the scoring section.
OnlyRules(ks) == IF Has(conf, "scoring") THEN DOMAIN conf.scoring = ks ELSE FALSE

\* C21: with only points_per_word = p configured, the score of a record is
\* p times the number of pieces its text splits into at the single space.
C21_LengthScore ==
  (ScoredText /\ OnlyRules({"points_per_word"})) =>
     LET p == conf.scoring.points_per_word
     IN p.type = "int" =>
          scored.score = PyInt(p.v * SplitCount(scored.record.text))

\* The text "a b c" was scored 3 with one point per word.
C21_Witness ==
  /\ ScoredText /\ OnlyRules({"points_per_word"})
  /\ scored.record.text = <<"a", " ", "b", " ", "c">>
  /\ conf.scoring.points_per_word = I(1)
  /\ scored.score = PyInt(3)

\* The keyword occurs in the text when case is ignored.
Occurs(keyword, text) == IsSubstring(Lower(keyword), Lower(text))

\* The sum of the integer points of the keywords of a dictionary that occur
\* in the text, each keyword counted once.
RECURSIVE PointsOccurring(_, _)
PointsOccurring(words, text) ==
  IF words = {} THEN 0
  ELSE LET e == CHOOSE x \in words : TRUE
       IN (IF Occurs(e.keyword, text) /\ e.points.type = "int"
           THEN e.points.v ELSE 0) + PointsOccurring(words \ {e}, text)

\* C22: with only interest and disinterest keywords configured, the score
\* is the sum of the points of the interest keywords that occur in the text
\* minus the sum of the points of the disinterest keywords that occur in
\* it, each keyword counted once and case ignored.
C22_KeywordScore ==
  (ScoredText /\ OnlyRules({"interested_words", "disinterested_words"})) =>
     LET iw == conf.scoring.interested_words
         dw == conf.scoring.disinterested_words
     IN (IsDict(iw) /\ IsDict(dw)) =>
          scored.score = PyInt(PointsOccurring(iw.v, scored.record.text)
                                 - PointsOccurring(dw.v, scored.record.text))

\* A text in which the keyword "A" occurs twice, in both cases, and no
\* other keyword occurs, was scored with the 3 points of "A".
C22_Witness ==
  /\ ScoredText /\ OnlyRules({"interested_words", "disinterested_words"})
  /\ scored.record.text = <<"a", " ", " ", "A">>
  /\ scored.score = PyInt(3)

\* The record scoreContent was called with is a dictionary.
ScoredDict == IF Returned THEN ~NoRecord(scored.record) ELSE FALSE

\* The (handle, reference) pairs in which the handle occurs in the
\* reference when case is ignored.
MentionPairs(handles, refs) ==
  {p \in (1..Len(handles)) \X (1..Len(refs)) :
     Occurs(handles[p[1]], refs[p[2]])}

\* C23: with only references_to_me and shoutout_heck configured, the score
\* is the shout-out contribution plus references_to_me times the number of
\* (configured handle, record reference) pairs in which the handle occurs
\* in the reference, case ignored; that number is zero when no handle list
\* is configured or the record has no references.
C23_SelfMentionScore ==
  (ScoredDict /\ OnlyRules({"references_to_me", "shoutout_heck"})) =>
     LET refs    == IF NonEmptyList(scored.record, "references")
                    THEN scored.record.references.v ELSE <<>>
         handles == IF HasHandles(conf)
                    THEN conf.user_identification.v.social_media_handles.v
                    ELSE <<>>
         shout   == Len(refs) * IntOrZero(conf.scoring.shoutout_heck)
         rtm     == IntOrZero(conf.scoring.references_to_me)
     IN scored.score
          = PyInt(shout + rtm * Cardinality(MentionPairs(handles, refs)))

\* Two handles and two references with three matching pairs were scored
\* three times references_to_me.
C23_Witness ==
  /\ ScoredDict /\ OnlyRules({"references_to_me", "shoutout_heck"})
  /\ HasHandles(conf)
  /\ conf.scoring.shoutout_heck = S("loud")
  /\ NonEmptyList(scored.record, "references")
  /\ Cardinality(MentionPairs(
        conf.user_identification.v.social_media_handles.v,
        scored.record.references.v)) = 3
  /\ scored.score = PyInt(3 * conf.scoring.references_to_me.v)

\* The number of hundredths of a second between two clock values.
Apart(t, u) == IF t >= u THEN t - u ELSE u - t

\* C24: every generated ID has exactly 5 characters, each one of 0-9, A-Z,
\* a-z, and two IDs generated at distinct clock values less than 62^5 - 1
\* hundredths of a second apart are distinct.
C24_FiveCharsDistinct ==
  /\ \A k \in 1..Len(mmids) :
       /\ Len(mmids[k].id) = 5
       /\ \A i \in 1..5 : \E d \in 1..62 : mmids[k].id[i] = Charset[d]
  /\ \A k, m \in 1..Len(mmids) :
       (/\ mmids[k].time # mmids[m].time
        /\ Apart(mmids[k].time, mmids[m].time) < TotalCodes)
          => mmids[k].id # mmids[m].id

\* Two IDs were generated 62^5 - 2 hundredths apart, one of them padded
\* with zeros.
C24_Witness ==
  /\ Len(mmids) = 2
  /\ mmids[1].time = 1
  /\ mmids[1].id = <<"0", "0", "0", "0", "1">>
  /\ Apart(mmids[1].time, mmids[2].time) = TotalCodes - 1
  /\ mmids[1].id # mmids[2].id

\* Every hit of the log is a record with a non-empty text and an mmid.
AllAdmissible(log) == \A k \in 1..Len(log) : Admissible(log[k])

\* The places of the log whose text no earlier place has.
FirstOf(log) ==
  {k \in 1..Len(log) :
     \A m \in 1..(k - 1) : log[m]._source.text # log[k]._source.text}

\* The place of the k-th record in the stable descending sort of the
\* records at the places K: behind those of higher score and the earlier
\* ones of equal score.
RankAmong(log, K, k) ==
  1 + Cardinality({m \in K :
                     \/ ScoreOf(log[m]) > ScoreOf(log[k])
                     \/ ScoreOf(log[m]) = ScoreOf(log[k]) /\ m < k})

\* The bucket is the first hitLimit entries of the stable descending sort
\* of the log without the records that repeat an earlier text.
TopOfDeduplicated(b, log, limit) ==
  LET K == FirstOf(log)
  IN /\ Len(b) = Min(limit, Cardinality(K))
     /\ \A r \in 1..Len(b) :
          LET k == CHOOSE x \in K : RankAmong(log, K, x) = r
          IN /\ b[r].text = log[k]._source.text
             /\ b[r].mmid = log[k]._source.mmid
             /\ b[r].score.val = ScoreOf(log[k])

\* No record has a higher score than the first record with its text.
NoHigherRepeat(log) ==
  \A k \in 1..Len(log) : \A m \in FirstOf(log) :
     (m < k /\ log[m]._source.text = log[k]._source.text)
        => ScoreOf(log[k]) <= ScoreOf(log[m])

\* C25 as stated: for any sequence of admissible hits of a topic of
\* positive hitLimit, also one that repeats a text with another score, the
\* bucket is the first hitLimit entries of the stable descending sort of
\* the sequence without the records that repeat an earlier text.
C25_TopOfDeduplicated ==
  (Len(retrievals) > 0 /\ AllAdmissible(hitLog) /\ Capacity(LastQuery) > 0)
    => TopOfDeduplicated(BucketIn(globalReply, LastQuery.title), hitLog,
                         Capacity(LastQuery))

\* C25: the same, for the sequences in which no record has a higher score
\* than the first record with its text.
C25_TopOfDeduplicatedNoHigherRepeat ==
  (Len(retrievals) > 0 /\ AllAdmissible(hitLog) /\ Capacity(LastQuery) > 0
     /\ NoHigherRepeat(hitLog))
    => TopOfDeduplicated(BucketIn(globalReply, LastQuery.title), hitLog,
                         Capacity(LastQuery))

\* A record was offered whose text an earlier record of the sequence has,
\* after that earlier record had been pushed out of the bucket.
C25_Witness ==
  /\ Called /\ Len(retrievals) > 0 /\ AllAdmissible(hitLog)
  /\ Capacity(LastQuery) > 0 /\ NoHigherRepeat(hitLog)
  /\ Len(hitLog) \notin FirstOf(hitLog)
  /\ ~TextIn(BucketBefore, last.record.text)

\* C26: a call of updateGlobalReply for the topic of title T leaves the
\* entry of every topic of another title as it was, and the digest keeps
\* its length.
C26_OtherBucketsUnchanged ==
  Called =>
    /\ Len(globalReply) = Len(last.before)
    /\ \A k \in 1..Len(globalReply) :
         last.before[k].title # CalledQuery.title
            => globalReply[k] = last.before[k]

\* A record was admitted for the second topic while the bucket of the
\* first, which holds an entry, stayed as it was.
C26_Witness ==
  /\ Called
  /\ Len(globalReply) = 2
  /\ CalledQuery.title = globalReply[2].title
  /\ globalReply[2].replies # last.before[2].replies
  /\ globalReply[1].replies # <<>>
  /\ globalReply[1] = last.before[1]

\* The send loop has ended.
SendStopped == pc \in {"sent", "gaveup"}

\* While the loop runs, the next wait is 10 seconds doubled once for every
\* failed attempt; there are never more than 10 attempts; the loop gives up
\* only after 10 failed attempts, with a wait above 2600; when it has
\* ended no further attempt can be made.
SendLoopBounded ==
  /\ attempts <= 10
  /\ pc = "send" => nextAttempt = 10 * (2 ^ attempts)
  /\ pc = "sent" => attempts >= 1
  /\ pc = "gaveup" => attempts = 10 /\ nextAttempt > 2600
  /\ SendStopped => ~ENABLED NextSend

RECURSIVE MailText(_)
MailText(message) ==
  IF message = <<>> THEN <<>> ELSE Head(message) \o MailText(Tail(message))

\* The tokens of a text from place i on: the 5 characters between a "["
\* and a "]" that is followed by at least one more character, without the
\* blacklisted ones.
RECURSIVE TokensFrom(_, _)
TokensFrom(text, i) ==
  IF i + 7 > Len(text) THEN <<>>
  ELSE (IF text[i] = "[" /\ text[i + 6] = "]"
             /\ ~isBlacklisted(conf, SubSeq(text, i + 1, i + 5))
        THEN <<SubSeq(text, i + 1, i + 5)>> ELSE <<>>)
         \o TokensFrom(text, i + 1)

\* C28 as stated: processEmail calls processMessage for no blacklisted
\* token, and once, in the order of the mail, for every other "[", 5
\* characters, "]" that at least one more character follows.
C28_EveryTokenProcessed ==
  replied # None =>
    /\ \A k \in 1..Len(replied.calls) :
         ~isBlacklisted(conf, replied.calls[k].mmid)
    /\ [k \in 1..Len(replied.calls) |-> replied.calls[k].mmid]
         = TokensFrom(MailText(replied.message), 1)

\* The hits of the query result that was parsed; none when it is not of
\* the form {"hits": {"hits": [...]}}.
ParsedHits ==
  LET q == parsed.queryResults
  IN IF NoRecord(q) THEN <<>>
     ELSE IF ~Has(q, "hits") THEN <<>>
     ELSE IF ~IsDict(q.hits) THEN <<>>
     ELSE IF ~Has(q.hits.v, "hits") THEN <<>>
     ELSE IF ~IsList(q.hits.v.hits) THEN <<>>
     ELSE q.hits.v.hits.v

\* The _source records of the hits whose mmid is m, in hit order.
RECURSIVE Matching(_, _)
Matching(hits, m) ==
  IF hits = <<>> THEN <<>>
  ELSE LET h == Head(hits)
           isMatch == IF h = NotADict THEN FALSE
                      ELSE IF ~Has(h, "_source") THEN FALSE
                      ELSE IF NoRecord(h._source) THEN FALSE
                      ELSE IF ~Has(h._source, "mmid") THEN FALSE
                      ELSE h._source.mmid = m
       IN (IF isMatch THEN <<h._source>> ELSE <<>>) \o Matching(Tail(hits), m)

\* C29 as stated: with an mmid given, parseQueryResults returns the _source
\* records of the hits with that mmid, in hit order and once per hit, and
\* nothing else.
C29_OnlyMatchingOnce ==
  (parsed # None /\ parsed.mmid # None) =>
     parsed.returned = Matching(ParsedHits, parsed.mmid.v)

\* The last callback was on_error with a status.
ErrorReceived ==
  IF twitterLog.call = "on_error" THEN twitterLog.status # None ELSE FALSE

====
